---- MODULE Spec2Model ----
(***************************************************************************)
(* Model of the LISCA notebook workflow (examples/lisca.ipynb): the        *)
(* Jupyter kernel namespace, the code cells run in document order, and the *)
(* position loop that creates one XY{fov} folder per field of view and     *)
(* drives Track / segment / save_to_pyama.                                 *)
(***************************************************************************)
EXTENDS Integers, Sequences, FiniteSets, TLC

\* ---------------------------------------------------------------- bounds
\* Number of settings below the default that each calibration widget can
\* be moved to (the widget ranges themselves live in notebook_viewer).
MaxWidget == 1

\* ------------------------------------------------------ program constants
\* flow_threshold default 0.8, counted in tenths
DefaultFlow == 8
DefaultDiameter == 29
DefaultMask == -2
\* positions=range(23, 24+1)
PosStart == 23
PosStop == 24 + 1

Defaults == [flow |-> DefaultFlow, diameter |-> DefaultDiameter, mask |-> DefaultMask]

Positions == [i \in 1..(PosStop - PosStart) |-> PosStart + i - 1]

\* f'XY{fov}/' joined to path_out
FovPath(fov) == "./XY" \o ToString(fov) \o "/"

Paths == {FovPath(Positions[i]) : i \in DOMAIN Positions}

\* ------------------------------------------------------------- the cells
CellImports == 1
CellPaths == 2
CellViewer == 3
CellCloseViewer == 4
CellSettings == 5
CellFrames == 6
CellCalibration == 7
CellParams == 8
CellMethod == 9
CellLoop == 10
NumCells == 10

\* names bound by the import cell, in statement order
ImportNames == <<"widgets", "plt", "ND2Reader", "pd", "display", "np", "sys",
                 "time", "Track", "tqdm", "os", "imread", "viewers">>

Prefix(s, n) == {s[i] : i \in 1..n}

\* cells the notebook text presents as optional tools
OptionalCells == {CellViewer, CellCloseViewer, CellCalibration}

\* statements of the position loop cell, in program order
LoopStmts == <<"idle", "for", "mkdir", "Track", "segment", "save_to_pyama",
               "count", "report">>

\* names each statement of the loop cell reads from the namespace
StmtReads(s) ==
  CASE s = "idle" -> {"time"}
    [] s = "for" -> {"positions", "os", "path_out"}
    [] s = "mkdir" -> {"os", "fovpath"}
    [] s = "Track" -> {"Track", "fovpath", "data_path", "bf_channel", "fl_channels",
                       "fov", "nd2_file", "frames"}
    [] s = "segment" -> {"tracker", "flow_threshold", "mask_threshold", "diameter",
                         "method"}
    [] s = "save_to_pyama" -> {"tracker", "fl_channel"}
    [] s = "count" -> {"n_positions"}
    [] s = "report" -> {"time", "t_0", "n_positions"}

\* names assigned (or imported) by each cell when it runs to completion
Writes(c) ==
  CASE c = CellImports -> Prefix(ImportNames, Len(ImportNames))
    [] c = CellPaths -> {"data_path", "nd2_file", "path_out"}
    [] c = CellViewer -> {"viewer"}
    [] c = CellCloseViewer -> {}
    [] c = CellSettings -> {"first", "last", "positions", "fl_channel", "bf_channel"}
    [] c = CellFrames -> {"first_frame", "last_frame", "frames"}
    [] c = CellCalibration -> {"segmentation_viewer"}
    [] c = CellParams -> {"flow_threshold", "diameter", "mask_threshold"}
    [] c = CellMethod -> {"method"}
    [] c = CellLoop -> {"n_positions", "t_0", "fov", "fovpath", "tracker"}

\* names read by each cell
Reads(c) ==
  CASE c = CellImports -> {"sys"}
    [] c = CellPaths -> {}
    [] c = CellViewer -> {"viewers", "os", "data_path", "nd2_file"}
    [] c = CellCloseViewer -> {"plt", "viewer"}
    [] c = CellSettings -> {}
    [] c = CellFrames -> {"first_frame", "last_frame"}
    [] c = CellCalibration -> {"viewers", "data_path", "nd2_file", "bf_channel"}
    [] c = CellParams -> {"segmentation_viewer", "plt"}
    [] c = CellMethod -> {}
    [] c = CellLoop -> UNION {StmtReads(LoopStmts[i]) : i \in DOMAIN LoopStmts}

AllWrites == UNION {Writes(c) : c \in 1..NumCells}
AllReads == UNION {Reads(c) : c \in 1..NumCells}

\* names the notebook reads but no cell of it ever binds; only a kernel that
\* already holds them (left over from earlier work) can supply them
FreeNames == AllReads \ AllWrites

NoValue == [flow |-> 0, diameter |-> 0, mask |-> 0]

WidgetValues == [flow : (DefaultFlow - MaxWidget)..DefaultFlow,
                 diameter : (DefaultDiameter - MaxWidget)..DefaultDiameter,
                 mask : (DefaultMask - MaxWidget)..DefaultMask]

NoExc == [type |-> "none", at |-> "none"]

VARIABLES
  cur,           \* next code cell of the notebook, in document order
  ns,            \* names bound in the kernel namespace
  skipped,       \* cells the user did not run
  failed,        \* cells that ended with an uncaught exception
  widgets,       \* widget values of segmentation_viewer (NoValue: no viewer)
  widgetsRead,   \* the parameter cell read all three widget values
  caught,        \* the parameter cell's except branch ran
  params,        \* (flow_threshold, diameter, mask_threshold)
  fs,            \* file system: path -> "absent" | "dir" | "file"
  made,          \* paths created by os.mkdir
  pc,            \* statement of the loop cell
  idx,           \* index of fov in positions
  n_positions,
  tracker,       \* fov of the current Track object, 0 if none
  calls,         \* calls made into lisca.pipeline, in order
  outputs,       \* positions whose export save_to_pyama has written
  printed,       \* the time-per-position report was printed
  exc            \* exception that left the loop cell, and the statement raising it

vars == <<cur, ns, skipped, failed, widgets, widgetsRead, caught, params, fs,
          made, pc, idx, n_positions, tracker, calls, outputs, printed, exc>>

cellVars == <<widgets, widgetsRead, caught, params>>
loopVars == <<fs, made, pc, idx, n_positions, tracker, calls, outputs, printed, exc>>

Init ==
  /\ cur = 1
  /\ ns \in SUBSET FreeNames
  /\ skipped = {}
  /\ failed = {}
  /\ widgets = NoValue
  /\ widgetsRead = FALSE
  /\ caught = FALSE
  /\ params = NoValue
  /\ fs \in [Paths -> {"absent", "dir", "file"}]
  /\ made = {}
  /\ pc = "idle"
  /\ idx = 0
  /\ n_positions = 0
  /\ tracker = 0
  /\ calls = <<>>
  /\ outputs = {}
  /\ printed = FALSE
  /\ exc = NoExc

\* ------------------------------------------------------- cells 1 .. 9

\* the user leaves out an optional cell
SkipCell ==
  /\ cur \in OptionalCells
  /\ skipped' = skipped \cup {cur}
  /\ cur' = cur + 1
  /\ UNCHANGED <<ns, failed, cellVars, loopVars>>

\* imports: each import statement may raise, keeping what was bound before
RunImports ==
  /\ cur = CellImports
  /\ \E n \in 0..Len(ImportNames), ok \in BOOLEAN :
       /\ (n < Len(ImportNames)) => ~ok
       /\ ns' = ns \cup Prefix(ImportNames, n)
       /\ failed' = IF ok THEN failed ELSE failed \cup {cur}
  /\ cur' = cur + 1
  /\ UNCHANGED <<skipped, cellVars, loopVars>>

\* cells made only of assignments of literals: paths, settings, method
RunAssignments ==
  /\ cur \in {CellPaths, CellSettings, CellMethod}
  /\ ns' = ns \cup Writes(cur)
  /\ cur' = cur + 1
  /\ UNCHANGED <<skipped, failed, cellVars, loopVars>>

\* first_frame=0; last_frame=-1; frames = range(first_frame, last_frame)
RunFrames ==
  /\ cur = CellFrames
  /\ ns' = ns \cup Writes(cur)
  /\ cur' = cur + 1
  /\ UNCHANGED <<skipped, failed, cellVars, loopVars>>

\* viewer = viewers.StackViewer(os.path.join(data_path, nd2_file))
RunViewer ==
  /\ cur = CellViewer
  /\ \E ok \in BOOLEAN :
       IF Reads(cur) \subseteq ns /\ ok
       THEN ns' = ns \cup Writes(cur) /\ failed' = failed
       ELSE ns' = ns /\ failed' = failed \cup {cur}
  /\ cur' = cur + 1
  /\ UNCHANGED <<skipped, cellVars, loopVars>>

\* plt.close(viewer.fig)
RunCloseViewer ==
  /\ cur = CellCloseViewer
  /\ \E ok \in BOOLEAN :
       failed' = IF Reads(cur) \subseteq ns /\ ok THEN failed ELSE failed \cup {cur}
  /\ cur' = cur + 1
  /\ UNCHANGED <<ns, skipped, cellVars, loopVars>>

\* segmentation_viewer = viewers.CellposeViewer(data_path+nd2_file, channel=bf_channel)
RunCalibration ==
  /\ cur = CellCalibration
  /\ \/ /\ Reads(cur) \subseteq ns
        /\ \E w \in WidgetValues : widgets' = w
        /\ ns' = ns \cup Writes(cur)
        /\ failed' = failed
     \/ /\ ns' = ns
        /\ widgets' = widgets
        /\ failed' = failed \cup {cur}
  /\ cur' = cur + 1
  /\ UNCHANGED <<skipped, widgetsRead, caught, params, loopVars>>

\* faulty variant of ExceptBranch: "except: pass"
ExceptPass(p) == p

\* except: flow_threshold, diameter, mask_threshold = 0.8, 29, -2
\* (p: the three values when the branch is entered, NoValue if unbound)
ExceptBranch(p) == Defaults

\* try: read the three widget values, close the figure; except: defaults
RunParams ==
  /\ cur = CellParams
  /\ \E readOk \in BOOLEAN, closeOk \in BOOLEAN :
       LET didRead == "segmentation_viewer" \in ns /\ readOk
           didClose == didRead /\ "plt" \in ns /\ closeOk
           afterRead == IF didRead THEN widgets ELSE params
       IN /\ widgetsRead' = didRead
          /\ caught' = ~didClose
          /\ params' = IF didClose THEN afterRead ELSE ExceptBranch(afterRead)
  /\ ns' = IF params' # NoValue THEN ns \cup Writes(cur) ELSE ns
  /\ cur' = cur + 1
  /\ UNCHANGED <<skipped, failed, widgets, loopVars>>

\* ------------------------------------------------ cell 10: position loop

Bound(names) == names \subseteq ns

Call(op, fov) == [op |-> op, fov |-> fov, path |-> FovPath(fov), params |-> params]

\* faulty variant of Raise: the loop body swallows the exception and goes on
RaiseContinue(e) ==
  /\ pc' = "for"
  /\ exc' = [type |-> e, at |-> pc]
  /\ failed' = failed
  /\ cur' = cur

\* an exception leaves the loop cell: nothing in it catches
Raise(e) ==
  /\ pc' = "error"
  /\ exc' = [type |-> e, at |-> pc]
  /\ failed' = failed \cup {CellLoop}
  /\ cur' = cur + 1

\* faulty variant of NextIdx: the iteration leaves out every other position
SkipIdx(i) == i + 2

\* for fov in positions: the next element
NextIdx(i) == i + 1

\* faulty variant of NextStmt: the export is called right after Track is built
NoSegmentStmt(s) ==
  CASE s = "for" -> "mkdir"
    [] s = "mkdir" -> "Track"
    [] s = "Track" -> "save_to_pyama"
    [] s = "segment" -> "save_to_pyama"
    [] s = "save_to_pyama" -> "count"
    [] s = "count" -> "for"

\* statement that follows s in the loop body
NextStmt(s) ==
  CASE s = "for" -> "mkdir"
    [] s = "mkdir" -> "Track"
    [] s = "Track" -> "segment"
    [] s = "segment" -> "save_to_pyama"
    [] s = "save_to_pyama" -> "count"
    [] s = "count" -> "for"

\* faulty variant of NeedsMkdir: os.mkdir is called without the isdir test
AlwaysMkdir(path) == TRUE

\* if not os.path.isdir(fovpath)
NeedsMkdir(path) == fs[path] # "dir"

\* n_positions=0; t_0 = time.time()
LoopStart ==
  /\ cur = CellLoop /\ pc = "idle"
  /\ n_positions' = 0
  /\ IF Bound(StmtReads(pc))
     THEN /\ ns' = ns \cup {"n_positions", "t_0"}
          /\ pc' = "for"
          /\ UNCHANGED <<cur, failed, exc>>
     ELSE /\ ns' = ns \cup {"n_positions"}
          /\ Raise("NameError")
  /\ UNCHANGED <<skipped, cellVars, fs, made, idx, tracker, calls, outputs, printed>>

\* for fov in positions: ...; fovpath=os.path.join(path_out, f'XY{fov}/')
ForStep ==
  /\ cur = CellLoop /\ pc = "for"
  /\ IF ~Bound({"positions"})
     THEN Raise("NameError") /\ UNCHANGED <<ns, idx>>
     ELSE IF NextIdx(idx) \notin DOMAIN Positions
     THEN pc' = "report" /\ UNCHANGED <<ns, idx, cur, failed, exc>>
     ELSE /\ idx' = NextIdx(idx)
          /\ IF Bound(StmtReads(pc))
             THEN /\ ns' = ns \cup {"fov", "fovpath"}
                  /\ pc' = NextStmt(pc)
                  /\ UNCHANGED <<cur, failed, exc>>
             ELSE /\ ns' = ns \cup {"fov"}
                  /\ Raise("NameError")
  /\ UNCHANGED <<skipped, cellVars, fs, made, n_positions, tracker, calls, outputs, printed>>

\* the folder test followed by os.mkdir(fovpath)
MkdirStep ==
  /\ cur = CellLoop /\ pc = "mkdir"
  /\ LET path == FovPath(Positions[idx]) IN
     IF ~Bound(StmtReads(pc))
     THEN Raise("NameError") /\ UNCHANGED <<fs, made>>
     ELSE IF ~NeedsMkdir(path)
     THEN pc' = NextStmt(pc) /\ UNCHANGED <<fs, made, cur, failed, exc>>
     ELSE IF fs[path] # "absent"
     THEN Raise("FileExistsError") /\ UNCHANGED <<fs, made>>
     ELSE \/ /\ fs' = [fs EXCEPT ![path] = "dir"]
             /\ made' = made \cup {path}
             /\ pc' = NextStmt(pc)
             /\ UNCHANGED <<cur, failed, exc>>
          \/ Raise("OSError") /\ UNCHANGED <<fs, made>>
  /\ UNCHANGED <<ns, skipped, cellVars, idx, n_positions, tracker, calls, outputs, printed>>

\* tracker = Track(fovpath, data_path, bf_channel, fl_channels, fov=fov,
\*                 nd2_file=nd2_file, frame_indices=frames)
TrackStep ==
  /\ cur = CellLoop /\ pc = "Track"
  /\ IF ~Bound(StmtReads(pc))
     THEN Raise("NameError") /\ UNCHANGED <<ns, tracker, calls>>
     ELSE /\ calls' = Append(calls, Call("Track", Positions[idx]))
          /\ \/ /\ tracker' = Positions[idx]
                /\ ns' = ns \cup {"tracker"}
                /\ pc' = NextStmt(pc)
                /\ UNCHANGED <<cur, failed, exc>>
             \/ Raise("TrackError") /\ UNCHANGED <<ns, tracker>>
  /\ UNCHANGED <<skipped, cellVars, fs, made, idx, n_positions, outputs, printed>>

\* tracker.segment(flow_threshold=..., mask_threshold=..., diameter=...,
\*                 pretrained_model='mdamb231', method=method)
SegmentStep ==
  /\ cur = CellLoop /\ pc = "segment"
  /\ IF ~Bound(StmtReads(pc))
     THEN Raise("NameError") /\ UNCHANGED calls
     ELSE /\ calls' = Append(calls, Call("segment", tracker))
          /\ \/ pc' = NextStmt(pc) /\ UNCHANGED <<cur, failed, exc>>
             \/ Raise("SegmentError")
  /\ UNCHANGED <<ns, skipped, cellVars, fs, made, idx, n_positions, tracker, outputs, printed>>

\* tracker.save_to_pyama(fl_channel)
SaveStep ==
  /\ cur = CellLoop /\ pc = "save_to_pyama"
  /\ IF ~Bound(StmtReads(pc))
     THEN Raise("NameError") /\ UNCHANGED <<calls, outputs>>
     ELSE /\ calls' = Append(calls, Call("save_to_pyama", tracker))
          /\ \/ /\ outputs' = outputs \cup {tracker}
                /\ pc' = NextStmt(pc)
                /\ UNCHANGED <<cur, failed, exc>>
             \/ Raise("SaveError") /\ UNCHANGED outputs
  /\ UNCHANGED <<ns, skipped, cellVars, fs, made, idx, n_positions, tracker, printed>>

\* n_positions+=1
CountStep ==
  /\ cur = CellLoop /\ pc = "count"
  /\ IF ~Bound(StmtReads(pc))
     THEN Raise("NameError") /\ UNCHANGED n_positions
     ELSE /\ n_positions' = n_positions + 1
          /\ pc' = NextStmt(pc)
          /\ UNCHANGED <<cur, failed, exc>>
  /\ UNCHANGED <<ns, skipped, cellVars, fs, made, idx, tracker, calls, outputs, printed>>

\* print(f"Time taken per position: {(time.time()-t_0)/(60*n_positions)} minutes")
ReportStep ==
  /\ cur = CellLoop /\ pc = "report"
  /\ IF ~Bound(StmtReads(pc))
     THEN Raise("NameError") /\ UNCHANGED printed
     ELSE IF 60 * n_positions = 0
     THEN Raise("ZeroDivisionError") /\ UNCHANGED printed
     ELSE /\ printed' = TRUE
          /\ pc' = "done"
          /\ cur' = cur + 1
          /\ UNCHANGED <<failed, exc>>
  /\ UNCHANGED <<ns, skipped, cellVars, fs, made, idx, n_positions, tracker, calls, outputs>>

Next ==
  \/ SkipCell
  \/ RunImports
  \/ RunAssignments
  \/ RunFrames
  \/ RunViewer
  \/ RunCloseViewer
  \/ RunCalibration
  \/ RunParams
  \/ LoopStart
  \/ ForStep
  \/ MkdirStep
  \/ TrackStep
  \/ SegmentStep
  \/ SaveStep
  \/ CountStep
  \/ ReportStep

Spec == Init /\ [][Next]_vars

\* ------------------------------------------------------------ properties

CallIdx == 1..Len(calls)
PosOf(f) == CHOOSE i \in DOMAIN Positions : Positions[i] = f
CallsOf(op, f) == {k \in CallIdx : calls[k].op = op /\ calls[k].fov = f}
CurPath == FovPath(Positions[idx])

\* every cell so far was run and none ended with an exception
CleanRun == skipped = {} /\ failed = {}

\* names bound by the cells of the notebook themselves
CellBound == ns \ FreeNames

\* C1: the folder XY{p} is a directory whenever Track is constructed for p,
\* whether os.mkdir made it or it was there before; a folder that is already
\* there is not an error (os.mkdir only fails on it when something that is
\* not a directory has the name); different positions have different folders.
C1_FolderExistsAtTrack ==
  /\ pc = "Track" => fs[CurPath] = "dir"
  /\ \A k \in CallIdx : calls[k].op = "Track" =>
        /\ calls[k].path = FovPath(calls[k].fov)
        /\ fs[calls[k].path] = "dir"
  /\ exc.type = "FileExistsError" => fs[CurPath] = "file"
  /\ \A i, j \in DOMAIN Positions :
        i # j => FovPath(Positions[i]) # FovPath(Positions[j])

\* C1 witness: Track was constructed for one position whose folder os.mkdir
\* had to make and for another whose folder was already there.
C1_Witness ==
  /\ \E k \in CallIdx : calls[k].op = "Track" /\ calls[k].path \in made
  /\ \E k \in CallIdx : calls[k].op = "Track" /\ calls[k].path \notin made

\* C2 (as claimed): in a run of all cells in document order, every name a
\* statement reads was bound by an earlier cell or earlier in the same cell.
C2_NamesBoundBeforeUse ==
  /\ (CleanRun /\ cur \in 1..(CellLoop - 1)) => (Reads(cur) \ Writes(cur)) \subseteq CellBound
  /\ (CleanRun /\ cur = CellLoop) => StmtReads(pc) \subseteq CellBound

\* C3: positions are handled one after another in the order of `positions`:
\* the calls never go back to an earlier position, no call is made twice for
\* a position, Track for a position follows directly the returned
\* save_to_pyama of the position before it, at most one position is in
\* progress, and a loop that ran to its end handled every position once.
C3_Sequential ==
  /\ \A k \in CallIdx : k > 1 => PosOf(calls[k - 1].fov) <= PosOf(calls[k].fov)
  /\ \A k \in CallIdx : Cardinality(CallsOf(calls[k].op, calls[k].fov)) = 1
  /\ \A k \in CallIdx : calls[k].op = "Track" =>
        IF PosOf(calls[k].fov) = 1 THEN k = 1
        ELSE /\ k > 1
             /\ calls[k - 1].op = "save_to_pyama"
             /\ calls[k - 1].fov = Positions[PosOf(calls[k].fov) - 1]
             /\ calls[k - 1].fov \in outputs
  /\ Cardinality({f \in {calls[k].fov : k \in CallIdx} : f \notin outputs}) <= 1
  /\ pc \in {"report", "done"} =>
        \A i \in DOMAIN Positions :
           /\ Cardinality(CallsOf("Track", Positions[i])) = 1
           /\ Cardinality(CallsOf("save_to_pyama", Positions[i])) = 1
           /\ Positions[i] \in outputs

\* C3 witness: the loop ran to its end over more than one position.
C3_Witness == pc = "done" /\ Len(Positions) > 1 /\ Len(calls) >= 2 * Len(Positions)

\* C4 (as claimed): save_to_pyama for a position is only called after both
\* segment and track were called, and returned, for that position.
C4_SegmentTrackThenSave ==
  \A k \in CallIdx : calls[k].op = "save_to_pyama" =>
     /\ \E j \in 1..(k - 1) : calls[j].op = "segment" /\ calls[j].fov = calls[k].fov
     /\ \E j \in 1..(k - 1) : calls[j].op = "track" /\ calls[j].fov = calls[k].fov

\* C4 (amended): save_to_pyama for a position is only called after segment
\* returned for that position, and the loop never calls tracker.track.
C4_SegmentThenSave ==
  /\ \A k \in CallIdx : calls[k].op = "save_to_pyama" =>
        \E j \in 1..(k - 1) : calls[j].op = "segment" /\ calls[j].fov = calls[k].fov
  /\ \A k \in CallIdx : calls[k].op \in {"Track", "segment", "save_to_pyama"}

\* C4 witness: save_to_pyama was called.
C4_Witness == \E k \in CallIdx : calls[k].op = "save_to_pyama"

\* C5: the parameter cell never ends with an exception; after it the three
\* parameters are bound, and they are 0.8, 29, -2 whenever its except branch
\* ran.
C5_ParamsAlwaysBound ==
  cur > CellParams =>
     /\ CellParams \notin failed
     /\ Writes(CellParams) \subseteq ns
     /\ params # NoValue
     /\ caught => params = Defaults

\* C5 witness: the calibration cell was skipped and the parameter cell ran.
C5_Witness ==
  /\ cur > CellParams
  /\ CellCalibration \in skipped
  /\ "segmentation_viewer" \notin ns
  /\ caught

\* C6 (as claimed): if the calibration viewer ran and the parameter cell read
\* its three widget values, every segment call gets exactly those values.
C6_CalibratedValuesUsed ==
  ("segmentation_viewer" \in ns /\ widgetsRead) =>
     \A k \in CallIdx : calls[k].op = "segment" => calls[k].params = widgets

\* C7: when making the folder, Track, segment or save_to_pyama raises for a
\* position, no call is made for a later position, exactly the positions
\* before it have their export, n_positions counts them, and the report is
\* not printed.
C7_NoRecovery ==
  exc.at \in {"mkdir", "Track", "segment", "save_to_pyama"} =>
     /\ ~printed
     /\ \A k \in CallIdx : PosOf(calls[k].fov) <= idx
     /\ outputs = {Positions[i] : i \in 1..(idx - 1)}
     /\ n_positions = idx - 1

\* C7 witness: a later position failed after an earlier one was completed.
C7_Witness ==
  /\ exc.at \in {"mkdir", "Track", "segment", "save_to_pyama"}
  /\ idx > 1
  /\ n_positions >= 1
  /\ outputs # {}
====
